---------------------------- MODULE Spec2Model ----------------------------
(***************************************************************************)
(* Model of saphyr's annotated YAML nodes: the generic node variant        *)
(* YamlData<Node> (src/saphyr/src/annotated.rs) and its position-carrying  *)
(* instantiation MarkedYaml (src/saphyr/src/annotated/marked_yaml.rs).     *)
(*                                                                         *)
(* Encoding.  A YamlData value is a record with one field per payload      *)
(* slot; the slots a variant does not have hold a fixed filler, so that    *)
(* two values are the same record exactly when they are the same Rust      *)
(* value:                                                                  *)
(*    kind  the variant          str   Box<str> of Real / String, as the   *)
(*                                     sequence of its characters          *)
(*    int   i64 of Integer, usize of Alias      bool  bool of Bool         *)
(*    tag   Option<Tag>: << >> is None, <<t>> is Some(t)                   *)
(*    seq   Vec<Node> of Sequence                                          *)
(*    map   LinkedHashMap<Node, Node> of Map: its entries, in list order,  *)
(*          each a record [key, value]                                     *)
(* A MarkedYaml is [span, data]; a bare Yaml has the same payload records  *)
(* with bare children and no span.                                         *)
(***************************************************************************)
EXTENDS Integers, Sequences, FiniteSets, TLC

VARIABLES node, out, pc, hist

vars == <<node, out, pc, hist>>

-----------------------------------------------------------------------------
(* Bounds of the model *)

\* most children a Sequence or Map is grown to
MaxLen == 2
\* usize positions 0..MaxIdx are used for indexing
MaxIdx == 3
\* Largest i64, scaled: i64::try_from(idx) fails for idx > I64_MAX
I64_MAX == 2

-----------------------------------------------------------------------------
(* Tag, Span *)

None == << >>
Some(t) == <<t>>

Tags == {"!t"}
OptTags == {None} \cup {Some(t) : t \in Tags}

Span(s, e) == [start |-> s, end |-> e]
Span_default == Span(0, 0)
Spans == {Span_default, Span(1, 2)}

-----------------------------------------------------------------------------
(* YamlData<Node>: the variants *)

Payload(k, s, i, b, t, q, m) ==
    [kind |-> k, str |-> s, int |-> i, bool |-> b, tag |-> t, seq |-> q, map |-> m]

Real(value, tag) == Payload("Real", value, 0, FALSE, tag, << >>, << >>)
Integer(value, tag) == Payload("Integer", << >>, value, FALSE, tag, << >>, << >>)
String(value, tag) == Payload("String", value, 0, FALSE, tag, << >>, << >>)
Bool(value, tag) == Payload("Bool", << >>, 0, value, tag, << >>, << >>)
Sequence(value, tag) == Payload("Sequence", << >>, 0, FALSE, tag, value, << >>)
Map(value, tag) == Payload("Map", << >>, 0, FALSE, tag, << >>, value)
Alias(x) == Payload("Alias", << >>, x, FALSE, None, << >>, << >>)
Null == Payload("Null", << >>, 0, FALSE, None, << >>, << >>)
BadValue == Payload("BadValue", << >>, 0, FALSE, None, << >>, << >>)

\* the bare tree's boolean variant is named Boolean
Boolean(value, tag) == Payload("Boolean", << >>, 0, value, tag, << >>, << >>)

MarkedYaml(span, data) == [span |-> span, data |-> data]

Entry(k, v) == [key |-> k, value |-> v]

-----------------------------------------------------------------------------
(* Narrowing accessors: Some(content) for the matching variant, else None *)

as_str(d) == IF d.kind = "String" THEN Some(d.str) ELSE None
as_sequence(d) == IF d.kind = "Sequence" THEN Some(d.seq) ELSE None
as_map(d) == IF d.kind = "Map" THEN Some(d.map) ELSE None
as_map_mut(d) == IF d.kind = "Map" THEN Some(d.map) ELSE None

is_some(o) == o # None
unwrap(o) == o[1]

-----------------------------------------------------------------------------
(* Equality and hashing *)

RECURSIVE YamlData_eq(_, _)
RECURSIVE YamlData_hash(_)
RECURSIVE Concat(_)

\* the concatenation of a sequence of sequences
Concat(ss) == IF ss = << >> THEN << >> ELSE Head(ss) \o Concat(Tail(ss))

\* an equality that also compares the spans, as a derived PartialEq would
eq_with_span(a, b) == a.span = b.span /\ YamlData_eq(a.data, b.data)

\* impl PartialEq for MarkedYaml: the payloads alone decide
eq(a, b) == YamlData_eq(a.data, b.data)

\* LinkedHashMap's PartialEq: same length and the same entries in the same order
LinkedHashMap_eq(x, y) ==
    /\ Len(x) = Len(y)
    /\ \A i \in 1..Len(x) : eq(x[i].key, y[i].key) /\ eq(x[i].value, y[i].value)

\* Vec's PartialEq: same length and equal elements
Vec_eq(x, y) == Len(x) = Len(y) /\ \A i \in 1..Len(x) : eq(x[i], y[i])

\* #[derive(PartialEq)] of YamlData: same variant and equal fields
YamlData_eq(a, b) ==
    /\ a.kind = b.kind
    /\ CASE a.kind \in {"Real", "String"} -> a.str = b.str /\ a.tag = b.tag
         [] a.kind = "Integer" -> a.int = b.int /\ a.tag = b.tag
         [] a.kind = "Bool" -> a.bool = b.bool /\ a.tag = b.tag
         [] a.kind = "Sequence" -> Vec_eq(a.seq, b.seq) /\ a.tag = b.tag
         [] a.kind = "Map" -> LinkedHashMap_eq(a.map, b.map) /\ a.tag = b.tag
         [] a.kind = "Alias" -> a.int = b.int
         [] OTHER -> TRUE

(* A hash is modelled by what is written to the Hasher: the sequence of     *)
(* writes, each a pair <<what, text>> with text a sequence of strings.  Two  *)
(* values hash alike when they write the same sequence.                     *)
Write(what, text) == << <<what, text>> >>
Digits(n) == <<ToString(n)>>

Option_Tag_hash(t) ==
    IF t = None THEN Write("discriminant", <<"None">>)
    ELSE Write("discriminant", <<"Some">>) \o Write("tag", t)

\* a hash that also feeds the span to the hasher, as a derived Hash would
hash_with_span(n) ==
    Write("span", Digits(n.span.start)) \o Write("span", Digits(n.span.end))
        \o YamlData_hash(n.data)

\* impl Hash for MarkedYaml: the payload alone is hashed
hash(n) == YamlData_hash(n.data)

\* Vec's Hash: the length, then each element
Vec_hash(v) ==
    Write("len", Digits(Len(v))) \o Concat([i \in 1..Len(v) |-> hash(v[i])])

\* LinkedHashMap's Hash: each entry in list order, key then value
LinkedHashMap_hash(m) ==
    Concat([i \in 1..Len(m) |-> hash(m[i].key) \o hash(m[i].value)])

\* #[derive(Hash)] of YamlData: the variant, then its fields in order
YamlData_hash(d) ==
    Write("discriminant", <<d.kind>>) \o
    CASE d.kind \in {"Real", "String"} -> Write("str", d.str) \o Option_Tag_hash(d.tag)
      [] d.kind = "Integer" -> Write("i64", Digits(d.int)) \o Option_Tag_hash(d.tag)
      [] d.kind = "Bool" -> Write("bool", Digits(d.bool)) \o Option_Tag_hash(d.tag)
      [] d.kind = "Sequence" -> Vec_hash(d.seq) \o Option_Tag_hash(d.tag)
      [] d.kind = "Map" -> LinkedHashMap_hash(d.map) \o Option_Tag_hash(d.tag)
      [] d.kind = "Alias" -> Write("usize", Digits(d.int))
      [] OTHER -> << >>

-----------------------------------------------------------------------------
(* AnnotatedMap<Node> = LinkedHashMap<Node, Node>, and Vec<Node> *)

LinkedHashMap_new == << >>

\* The position of the entry a lookup of key k finds: the entry of the same
\* hash whose key is equal to k; 0 when there is none.
Position(m, k) ==
    LET hits == {i \in 1..Len(m) : hash(m[i].key) = hash(k) /\ eq(m[i].key, k)}
    IN  IF hits = {} THEN 0 ELSE CHOOSE i \in hits : \A j \in hits : i <= j

LinkedHashMap_get(m, k) ==
    IF Position(m, k) = 0 THEN None ELSE Some(m[Position(m, k)].value)

Remove(s, p) == SubSeq(s, 1, p - 1) \o SubSeq(s, p + 1, Len(s))

\* insert: a new key is appended; for a key already present the entry keeps
\* its key, takes the new value and moves to the back of the list
LinkedHashMap_insert(m, k, v) ==
    LET p == Position(m, k)
    IN  IF p = 0 THEN Append(m, Entry(k, v))
        ELSE Append(Remove(m, p), Entry(m[p].key, v))

\* Vec::get with a 0-based position
Vec_get(v, i) == IF i < Len(v) THEN Some(v[i + 1]) ELSE None

-----------------------------------------------------------------------------
(* impl From<YamlData<MarkedYaml>> for MarkedYaml *)

from(data) == MarkedYaml(Span_default, data)

-----------------------------------------------------------------------------
(* impl LoadableYamlNode for MarkedYaml *)

\* a conversion that copies the children of a container along
from_bare_yaml_keeping(yaml) ==
    MarkedYaml(Span_default,
        IF yaml.kind = "Boolean" THEN Bool(yaml.bool, yaml.tag)
        ELSE IF yaml.kind = "Sequence"
             THEN Sequence([i \in 1..Len(yaml.seq) |-> from(yaml.seq[i])], yaml.tag)
        ELSE IF yaml.kind = "Map"
             THEN Map([i \in 1..Len(yaml.map) |->
                          Entry(from(yaml.map[i].key), from(yaml.map[i].value))],
                      yaml.tag)
        ELSE yaml)

from_bare_yaml(yaml) ==
    MarkedYaml(Span_default,
        CASE yaml.kind = "Real" -> Real(yaml.str, yaml.tag)
          [] yaml.kind = "Integer" -> Integer(yaml.int, yaml.tag)
          [] yaml.kind = "String" -> String(yaml.str, yaml.tag)
          [] yaml.kind = "Boolean" -> Bool(yaml.bool, yaml.tag)
          [] yaml.kind = "Sequence" -> Sequence(<< >>, yaml.tag)
          [] yaml.kind = "Map" -> Map(LinkedHashMap_new, yaml.tag)
          [] yaml.kind = "Alias" -> Alias(yaml.int)
          [] yaml.kind = "Null" -> Null
          [] yaml.kind = "BadValue" -> BadValue)

\* a with_span that makes the node anew at the span: variant and tag are
\* kept, the children are not
with_span_anew(self, span) ==
    MarkedYaml(span, [self.data EXCEPT !.seq = << >>, !.map = << >>])

with_span(self, span) == [self EXCEPT !.span = span]

\* str::starts_with
starts_with(s, pat) == Len(s) >= Len(pat) /\ SubSeq(s, 1, Len(pat)) = pat

\* Option::is_some_and(|s| s.starts_with("<<"))
is_merge_key(self) ==
    is_some(as_str(self.data)) /\ starts_with(unwrap(as_str(self.data)), <<"<", "<">>)

(* What a call gives back: the value returned (ret, empty after a panic),   *)
(* for a call returning a mutable place the position of that place in the   *)
(* container (slot), and the panic raised, if any: its message with the     *)
(* formatted arguments set apart (and without the backquotes).              *)
NoPanic == [msg |-> "", args |-> << >>]
Panic(msg, args) == [panic |-> [msg |-> msg, args |-> args], ret |-> << >>, slot |-> << >>]
Ok(v) == [panic |-> NoPanic, ret |-> <<v>>, slot |-> << >>]
OkSlot(v, p) == [panic |-> NoPanic, ret |-> <<v>>, slot |-> <<p>>]

\* what a method taking &mut self gives back, and self as the call leaves it
Mut(r, self) == [panic |-> r.panic, ret |-> r.ret, slot |-> r.slot, self |-> self]

UnwrapNone == Panic("called Option::unwrap() on a None value", << >>)
Option_unwrap(o) == IF is_some(o) THEN Ok(unwrap(o)) ELSE UnwrapNone

\* a sequence_mut that turns a non-sequence into an empty sequence
sequence_mut_lenient(self) ==
    IF self.data.kind = "Sequence" THEN Mut(Ok(self.data.seq), self)
    ELSE Mut(Ok(<< >>), [self EXCEPT !.data = Sequence(<< >>, None)])

sequence_mut(self) ==
    IF self.data.kind = "Sequence" THEN Mut(Ok(self.data.seq), self)
    ELSE Mut(Panic("Called array_mut on a non-array", << >>), self)

into_map(self) ==
    IF self.data.kind = "Map" THEN Ok(self.data.map)
    ELSE Panic("Called into_map on a non-map", << >>)

map_mut(self) ==
    IF self.data.kind = "Map" THEN Mut(Ok(self.data.map), self)
    ELSE Mut(Panic("Called map_mut on a non-map", << >>), self)

\* a take that hands out a copy and leaves the node as it is
take_copy(self) == [taken_out |-> self, self |-> self]

\* take: taken_out starts as the default BadValue node and is swapped with self
take(self) ==
    LET taken_out == MarkedYaml(Span_default, BadValue)
    IN  [taken_out |-> self, self |-> taken_out]

-----------------------------------------------------------------------------
(* impl YamlData: or, borrowed_or *)

\* a coalescing that replaces only BadValue
or_badvalue_only(self, other) == IF self.kind = "BadValue" THEN other ELSE self

or(self, other) == IF self.kind \in {"BadValue", "Null"} THEN other ELSE self

borrowed_or(self, other) == IF self.kind \in {"BadValue", "Null"} THEN other ELSE self

-----------------------------------------------------------------------------
(* Indexing: impl Index / IndexMut for YamlData *)

LinkedHashMap_get_mut(m, k) ==
    IF Position(m, k) = 0 THEN UnwrapNone ELSE OkSlot(m[Position(m, k)].value, Position(m, k))

\* i64::try_from(idx).unwrap()
TryFromErr == Panic("called Result::unwrap() on an Err value: TryFromIntError(())", << >>)

\* Index<&str>
index_str(self, idx) ==
    LET key == String(idx, None)
    IN  IF is_some(as_map(self))
        THEN Option_unwrap(LinkedHashMap_get(unwrap(as_map(self)), from(key)))
        ELSE Panic("{idx}: key does not exist", <<idx>>)

\* IndexMut<&str>
index_mut_str(self, idx) ==
    LET key == String(idx, None)
    IN  IF is_some(as_map_mut(self))
        THEN Mut(LinkedHashMap_get_mut(unwrap(as_map_mut(self)), from(key)), self)
        ELSE Mut(Panic("Not a hash type", << >>), self)

\* Index<usize>
index_usize(self, idx) ==
    IF is_some(as_sequence(self))
    THEN Option_unwrap(Vec_get(unwrap(as_sequence(self)), idx))
    ELSE IF is_some(as_map(self))
    THEN IF idx > I64_MAX THEN TryFromErr
         ELSE Option_unwrap(
                  LinkedHashMap_get(unwrap(as_map(self)), from(Integer(idx, None))))
    ELSE Panic("{idx}: Index out of bounds", <<Digits(idx)>>)

\* Vec's IndexMut<usize>
Vec_index_mut(v, idx) ==
    IF idx < Len(v) THEN OkSlot(v[idx + 1], idx + 1)
    ELSE Panic("index out of bounds: the len is {} but the index is {}",
               <<Digits(Len(v)), Digits(idx)>>)

\* an index_mut that adds a missing key to a mapping, with a Null value
index_mut_usize_inserting(self, idx) ==
    IF self.kind = "Sequence" THEN Mut(Vec_index_mut(self.seq, idx), self)
    ELSE IF self.kind = "Map"
    THEN IF idx > I64_MAX THEN Mut(TryFromErr, self)
         ELSE IF Position(self.map, from(Integer(idx, None))) = 0
              THEN Mut(OkSlot(from(Null), Len(self.map) + 1),
                       [self EXCEPT !.map =
                           Append(@, Entry(from(Integer(idx, None)), from(Null)))])
              ELSE Mut(LinkedHashMap_get_mut(self.map, from(Integer(idx, None))), self)
    ELSE Mut(Panic("Attempting to index but self is not a sequence nor a mapping", << >>),
             self)

\* IndexMut<usize>
index_mut_usize(self, idx) ==
    IF self.kind = "Sequence" THEN Mut(Vec_index_mut(self.seq, idx), self)
    ELSE IF self.kind = "Map"
    THEN IF idx > I64_MAX THEN Mut(TryFromErr, self)
         ELSE Mut(LinkedHashMap_get_mut(self.map, from(Integer(idx, None))), self)
    ELSE Mut(Panic("Attempting to index but self is not a sequence nor a mapping", << >>),
             self)

\* writing v through the place index_mut gave: data[idx] = v
Store(self, slot, v) ==
    IF self.kind = "Sequence"
    THEN [self EXCEPT !.seq[slot] = v]
    ELSE [self EXCEPT !.map[slot].value = v]

-----------------------------------------------------------------------------
(* Consuming iteration: impl IntoIterator for YamlData, AnnotatedYamlIter *)

\* into_sequence: the list of a Sequence, None for every other variant
into_sequence(d) == IF d.kind = "Sequence" THEN Some(d.seq) ELSE None

\* Option<Vec<Node>>::unwrap_or_default: the empty Vec stands for None
unwrap_or_default(o) == IF is_some(o) THEN unwrap(o) ELSE << >>

\* Vec::into_iter: the elements still to come, the next one first
Vec_into_iter(v) == v

\* an into_iter that also walks the values of a Map
into_iter_of_values(self) ==
    [yaml |-> Vec_into_iter(
        IF self.kind = "Map" THEN [i \in 1..Len(self.map) |-> self.map[i].value]
        ELSE unwrap_or_default(into_sequence(self)))]

\* into_iter: an AnnotatedYamlIter over the list of the Sequence, or over an
\* empty list
into_iter(self) == [yaml |-> Vec_into_iter(unwrap_or_default(into_sequence(self)))]

\* std::vec::IntoIter::next
Vec_IntoIter_next(it) ==
    IF it = << >> THEN [ret |-> None, self |-> it]
    ELSE [ret |-> Some(Head(it)), self |-> Tail(it)]

\* AnnotatedYamlIter::next: what it gives, and the iterator as it leaves it
next(self) ==
    [ret |-> Vec_IntoIter_next(self.yaml).ret,
     self |-> [yaml |-> Vec_IntoIter_next(self.yaml).self]]

\* for item in iter: the items next gives, one call after the other, up to
\* the first None
RECURSIVE Drain(_)
Drain(iter) ==
    IF next(iter).ret = None THEN << >>
    ELSE <<unwrap(next(iter).ret)>> \o Drain(next(iter).self)

-----------------------------------------------------------------------------
(* The values the operations are exercised on *)

SeqsUpTo(S, n) == UNION {[1..k -> S] : k \in 0..n}

K == <<"k">>
Strs == {<<"<", "<">>, <<"<", "<", "k">>, K}
Ints == {0, 1}

\* bare scalars: every variant, with and without a tag
BareScalars ==
    {Real(<<"1", ".", "5">>, t) : t \in OptTags}
        \cup {Integer(i, t) : i \in Ints, t \in OptTags}
        \cup {String(v, t) : v \in Strs, t \in OptTags}
        \cup {Boolean(b, t) : b \in BOOLEAN, t \in OptTags}
        \cup {Alias(x) : x \in Ints}
        \cup {Null, BadValue}

\* bare containers of up to MaxLen children
BareKids == {Integer(0, None), String(K, None)}
BareSequences ==
    {Sequence(v, t) : v \in SeqsUpTo(BareKids, MaxLen), t \in OptTags}
BareMaps ==
    {Map(m, t) :
        m \in {e \in SeqsUpTo({Entry(k, v) : k \in BareKids, v \in BareKids}, MaxLen) :
                  \A i, j \in 1..Len(e) : i # j => e[i].key # e[j].key},
        t \in OptTags}
BareYamls == BareScalars \cup BareSequences \cup BareMaps

\* an annotated scalar as the loader makes it: converted, then given its span
At(yaml, span) == with_span(from_bare_yaml(yaml), span)

\* an annotated sequence / mapping as the loader makes it: converted empty,
\* populated through sequence_mut / map_mut, then given its span
SequenceAt(children, tag, span) ==
    with_span([from_bare_yaml(Sequence(<< >>, tag)) EXCEPT !.data.seq = children], span)
MapAt(entries, tag, span) ==
    with_span([from_bare_yaml(Map(<< >>, tag)) EXCEPT !.data.map = entries], span)

\* a composite key, a Map containing a Sequence, every node of it at span s
CompositeKey(s) ==
    MapAt(<<Entry(At(String(K, None), s),
                  SequenceAt(<<At(Integer(0, None), s), At(Integer(1, None), s)>>, None, s))>>,
          None, s)

\* children pushed into sequences
Kids ==
    {At(Integer(0, None), s) : s \in Spans}
        \cup {At(String(K, None), Span_default),
              SequenceAt(<<At(Integer(0, None), Span(1, 2))>>, None, Span_default)}

\* keys and values inserted into mappings
Keys ==
    {At(String(K, None), s) : s \in Spans}
        \cup {At(String(K, Some("!t")), Span_default),
              At(Integer(0, None), Span_default),
              At(Integer(0, Some("!t")), Span_default)}
        \cup {CompositeKey(s) : s \in Spans}
Vals == {At(Null, Span_default), At(Integer(1, None), Span(1, 2))}

\* second operands of or, borrowed_or and ==
Others ==
    {At(Null, Span_default), At(BadValue, Span_default),
     At(String(K, None), Span(1, 2)), At(Integer(0, None), Span(1, 2)),
     SequenceAt(<<At(Integer(0, None), Span(1, 2))>>, None, Span(1, 2)),
     SequenceAt(<<SequenceAt(<<At(Integer(0, None), Span_default)>>, None, Span(1, 2))>>,
                None, Span_default),
     MapAt(<<Entry(At(String(K, None), Span(1, 2)), At(Null, Span(1, 2)))>>, None, Span(1, 2)),
     MapAt(<<Entry(CompositeKey(Span(1, 2)), At(Integer(1, None), Span_default))>>,
           None, Span_default)}

\* string keys and positions used for indexing
IdxStrs == {K, <<"x">>}
Idxs == 0..MaxIdx

-----------------------------------------------------------------------------
(* The state.                                                              *)
(*   node  the node the loader holds                                       *)
(*   out   the last call on it: its name, the arguments and what the call  *)
(*         gave back; for a call that ends the run also self as it was     *)
(*         before the call (a call the run goes on after is related to     *)
(*         the node before it by the step itself)                          *)
(*   pc    where the run is: "empty" before the node is made, "building"   *)
(*         while it is changed, "built" once with_span has given it its    *)
(*         position, and then one of                                       *)
(*           "observed"  a method taking &self has been called,            *)
(*           "consumed"  a method taking self by value has moved the node  *)
(*                       out of the slot,                                  *)
(*           "panicked"  a call has panicked.                              *)
(*   hist  a history variable, read by no operation: how the node came to  *)
(*         be what it is, as long as it was made by from_bare_yaml and     *)
(*         then only populated, by push on the list sequence_mut gave or   *)
(*         by insert of keys not yet present on the mapping map_mut gave:  *)
(*         the variant and tag of the bare node, and the children added,   *)
(*         in the order of their addition.  Any other change of the node   *)
(*         ends the record.                                                *)
(* A run makes one node (from_bare_yaml does not read the slot), changes   *)
(* it, and ends with one observation, one consuming call or a panic.  The  *)
(* observations are made of built nodes: with_span with the span the node  *)
(* has leaves it as it is, so every node a run holds is also held built,   *)
(* and a method taking &self does not change the node, so a run that went  *)
(* on after it would hold no other node.                                   *)

RECURSIVE Erase(_)

\* the node with every span in it, its own and its descendants', set to zero
Erase(n) ==
    MarkedYaml(Span_default,
        [n.data EXCEPT
            !.seq = [i \in 1..Len(n.data.seq) |-> Erase(n.data.seq[i])],
            !.map = [i \in 1..Len(n.data.map) |->
                        Entry(Erase(n.data.map[i].key), Erase(n.data.map[i].value))]])

\* structurally equal payloads: the same variant, value, tag and children
SamePayload(a, b) == Erase(a) = Erase(b)

NoHistory == [clean |-> FALSE, kind |-> "", tag |-> None, added |-> << >>]
Started(yaml) == [clean |-> TRUE, kind |-> yaml.kind, tag |-> yaml.tag, added |-> << >>]
Added(h, child) == IF h.clean THEN [h EXCEPT !.added = Append(@, child)] ELSE h
Holds(h, key) == \E i \in 1..Len(h.added) : SamePayload(h.added[i].key, key)

Call(op, self, args, r) ==
    [op |-> op, self |-> IF r.panic = NoPanic THEN << >> ELSE <<self>>, args |-> args,
     ret |-> r.ret, slot |-> r.slot, panic |-> r.panic]

LastCall(op, self, args, r) ==
    [op |-> op, self |-> <<self>>, args |-> args,
     ret |-> r.ret, slot |-> r.slot, panic |-> r.panic]

After(r, pc_ok) == IF r.panic = NoPanic THEN pc_ok ELSE "panicked"

Changeable == pc \in {"building", "built"}

Init ==
    /\ node = MarkedYaml(Span_default, BadValue)
    /\ out = Call("new", node, << >>, Ok(node))
    /\ pc = "empty"
    /\ hist = NoHistory

FromBareYaml ==
    \E yaml \in BareYamls :
        /\ pc = "empty"
        /\ node' = from_bare_yaml(yaml)
        /\ out' = Call("from_bare_yaml", node, <<yaml>>, Ok(node'))
        /\ pc' = "building"
        /\ hist' = Started(yaml)

WithSpan ==
    \E span \in Spans :
        /\ Changeable
        /\ node' = with_span(node, span)
        /\ out' = Call("with_span", node, <<span>>, Ok(node'))
        /\ pc' = "built"
        /\ UNCHANGED hist

\* self.sequence_mut(): the call gives the list of the node's children
SequenceMut ==
    LET r == sequence_mut(node)
    IN  /\ Changeable
        /\ node' = r.self
        /\ out' = Call("sequence_mut", node, << >>, r)
        /\ pc' = After(r, "building")
        /\ UNCHANGED hist

\* push(child) on the list sequence_mut gave, which is the node's own
Push ==
    \E child \in Kids :
        /\ pc = "building" /\ out.op = "sequence_mut"
        /\ Len(node.data.seq) < MaxLen
        /\ node' = [node EXCEPT !.data.seq = Append(@, child)]
        /\ out' = Call("push", node, <<child>>, Ok(TRUE))
        /\ pc' = "building"
        /\ hist' = Added(hist, child)

\* self.map_mut(): the call gives the node's mapping
MapMut ==
    LET r == map_mut(node)
    IN  /\ Changeable
        /\ node' = r.self
        /\ out' = Call("map_mut", node, << >>, r)
        /\ pc' = After(r, "building")
        /\ UNCHANGED hist

\* insert(key, value) on the mapping map_mut gave, which is the node's own
Insert ==
    \E key \in Keys, value \in Vals :
        /\ pc = "building" /\ out.op = "map_mut"
        /\ Len(LinkedHashMap_insert(node.data.map, key, value)) <= MaxLen
        /\ node' = [node EXCEPT !.data.map = LinkedHashMap_insert(@, key, value)]
        /\ out' = Call("insert", node, <<key, value>>, Ok(TRUE))
        /\ pc' = "building"
        /\ hist' = IF Holds(hist, key) THEN NoHistory ELSE Added(hist, Entry(key, value))

IntoMap ==
    /\ pc = "built"
    /\ out' = LastCall("into_map", node, << >>, into_map(node))
    /\ pc' = After(into_map(node), "consumed")
    /\ UNCHANGED <<node, hist>>

Take ==
    /\ Changeable
    /\ node' = take(node).self
    /\ out' = Call("take", node, << >>, Ok(take(node).taken_out))
    /\ pc' = "building"
    /\ hist' = NoHistory

IsMergeKey ==
    /\ pc = "built"
    /\ out' = LastCall("is_merge_key", node, << >>, Ok(is_merge_key(node)))
    /\ pc' = "observed"
    /\ UNCHANGED <<node, hist>>

Or ==
    \E other \in Others :
        /\ pc = "built"
        /\ out' = LastCall("or", node, <<other>>, Ok(or(node.data, other.data)))
        /\ pc' = "consumed"
        /\ UNCHANGED <<node, hist>>

BorrowedOr ==
    \E other \in Others :
        /\ pc = "built"
        /\ out' = LastCall("borrowed_or", node, <<other>>,
                           Ok(borrowed_or(node.data, other.data)))
        /\ pc' = "observed"
        /\ UNCHANGED <<node, hist>>

\* &self.data[idx] with a string key
IndexStr ==
    \E idx \in IdxStrs :
        LET r == index_str(node.data, idx)
        IN  /\ pc = "built"
            /\ out' = LastCall("index_str", node, <<idx>>, r)
            /\ pc' = After(r, "observed")
            /\ UNCHANGED <<node, hist>>

\* &mut self.data[idx] with a string key: the call gives a place in the node
IndexMutStr ==
    \E idx \in IdxStrs :
        LET r == index_mut_str(node.data, idx)
        IN  /\ Changeable
            /\ node' = [node EXCEPT !.data = r.self]
            /\ out' = Call("index_mut_str", node, <<idx>>, r)
            /\ pc' = After(r, "building")
            /\ UNCHANGED hist

\* &self.data[idx] with a position
IndexUsize ==
    \E idx \in Idxs :
        LET r == index_usize(node.data, idx)
        IN  /\ pc = "built"
            /\ out' = LastCall("index_usize", node, <<idx>>, r)
            /\ pc' = After(r, "observed")
            /\ UNCHANGED <<node, hist>>

\* &mut self.data[idx] with a position: the call gives a place in the node
IndexMutUsize ==
    \E idx \in Idxs :
        LET r == index_mut_usize(node.data, idx)
        IN  /\ Changeable
            /\ node' = [node EXCEPT !.data = r.self]
            /\ out' = Call("index_mut_usize", node, <<idx>>, r)
            /\ pc' = After(r, "building")
            /\ UNCHANGED hist

\* *place = value, with the place index_mut gave
Assign ==
    \E value \in Vals :
        /\ pc = "building" /\ out.op \in {"index_mut_str", "index_mut_usize"}
        /\ node' = [node EXCEPT !.data = Store(@, out.slot[1], value)]
        /\ out' = Call("assign", node, <<out.slot[1], value>>, Ok(TRUE))
        /\ pc' = "building"
        /\ hist' = NoHistory

\* for item in self.data: into_iter takes the payload by value, and next is
\* called until it gives None
IntoIter ==
    /\ pc = "built"
    /\ out' = LastCall("into_iter", node, << >>, Ok(Drain(into_iter(node.data))))
    /\ pc' = "consumed"
    /\ UNCHANGED <<node, hist>>

\* self.data.as_map() and a lookup of key in the mapping it gives
Get ==
    \E key \in Keys :
        /\ pc = "built" /\ is_some(as_map(node.data))
        /\ out' = LastCall("get", node, <<key>>,
                           Ok(LinkedHashMap_get(unwrap(as_map(node.data)), key)))
        /\ pc' = "observed"
        /\ UNCHANGED <<node, hist>>

\* self == other, and whether the two hash alike
EqHash ==
    \E other \in Others :
        /\ pc = "built"
        /\ out' = LastCall("eq", node, <<other>>,
                           Ok(<<eq(node, other), hash(node) = hash(other)>>))
        /\ pc' = "observed"
        /\ UNCHANGED <<node, hist>>

Next ==
    \/ FromBareYaml
    \/ WithSpan
    \/ SequenceMut
    \/ Push
    \/ MapMut
    \/ Insert
    \/ IntoMap
    \/ Take
    \/ IsMergeKey
    \/ Or
    \/ BorrowedOr
    \/ IndexStr
    \/ IndexMutStr
    \/ IndexUsize
    \/ IndexMutUsize
    \/ Assign
    \/ Get
    \/ EqHash
    \/ IntoIter

Spec == Init /\ [][Next]_vars

-----------------------------------------------------------------------------
(* Properties *)

Panicked(o) == o.panic # NoPanic

\* C1: two annotated nodes with structurally equal payloads (tags and all
\* children included) compare equal and hash alike whatever their spans and
\* the spans of their descendants; two nodes with different payloads compare
\* unequal whatever their spans.
C1_EqHashIgnoreSpans ==
    out.op = "eq" =>
        LET a == out.self[1]
            b == out.args[1]
        IN  /\ SamePayload(a, b) => out.ret[1] = <<TRUE, TRUE>>
            /\ ~SamePayload(a, b) => out.ret[1][1] = FALSE

\* two containers that differ in their own span and in a descendant's span
\* only have been compared, and found equal and of the same hash
C1_Witness ==
    /\ out.op = "eq"
    /\ out.self[1].data.kind \in {"Sequence", "Map"}
    /\ SamePayload(out.self[1], out.args[1])
    /\ out.self[1].span # out.args[1].span
    /\ out.self[1].data # out.args[1].data
    /\ out.ret[1] = <<TRUE, TRUE>>

\* C2: is_merge_key is true exactly for a String scalar whose value is the
\* two-character sigil "<<", and false for every other node, a String that
\* only begins with "<<" included.
C2_MergeKeyExact ==
    out.op = "is_merge_key" =>
        out.ret[1] = (/\ out.self[1].data.kind = "String"
                      /\ out.self[1].data.str = <<"<", "<">>)

\* C3: from_bare_yaml gives a node with the default span and the variant and
\* tag of the bare node; the value of a Real, Integer, String, Bool or Alias
\* is kept; a Sequence or Map comes out with no elements, however many
\* children the bare node has.
C3_FromBareYaml ==
    out.op = "from_bare_yaml" =>
        LET yaml == out.args[1]
            made == out.ret[1]
        IN  /\ made = node
            /\ made.span = Span(0, 0)
            /\ made.data.kind = (IF yaml.kind = "Boolean" THEN "Bool" ELSE yaml.kind)
            /\ made.data.tag = yaml.tag
            /\ made.data.str = yaml.str
            /\ made.data.int = yaml.int
            /\ made.data.bool = yaml.bool
            /\ Len(made.data.seq) = 0
            /\ Len(made.data.map) = 0

\* a tagged bare Map with MaxLen entries has been converted
C3_Witness ==
    /\ out.op = "from_bare_yaml"
    /\ out.args[1].kind = "Map"
    /\ Len(out.args[1].map) = MaxLen
    /\ out.args[1].tag # None
    /\ node.data.kind = "Map"
    /\ node.data.map = << >>

\* C4: take gives back the node as it was, payload, children and span, and
\* leaves a BadValue node with the default span in its place (also when the
\* node was BadValue already); the content taken is then in the value given
\* back and nowhere in the node.
C4_Take ==
    [][out'.op = "take" =>
          /\ out'.ret = <<node>>
          /\ node' = MarkedYaml(Span(0, 0), BadValue)
          /\ node'.data.seq = << >> /\ node'.data.map = << >>
          /\ pc' # "panicked"]_vars

\* a Sequence of two elements at a span of its own has been taken
C4_Witness ==
    /\ out.op = "take"
    /\ out.ret[1].data.kind = "Sequence"
    /\ Len(out.ret[1].data.seq) = 2
    /\ out.ret[1].span # Span_default
    /\ node.data.kind = "BadValue"

\* C5: BadValue.or(X) = X and Null.or(X) = X; Y.or(X) = Y for every Y that is
\* neither Null nor BadValue; borrowed_or makes the same choice and changes
\* neither operand.
C5_Or ==
    out.op \in {"or", "borrowed_or"} =>
        LET y == out.self[1].data
            x == out.args[1].data
        IN  /\ y.kind \in {"Null", "BadValue"} => out.ret[1] = x
            /\ y.kind \notin {"Null", "BadValue"} => out.ret[1] = y
            /\ node = out.self[1]

\* Null.borrowed_or(a Map) has given the Map
C5_Witness ==
    /\ out.op = "borrowed_or"
    /\ out.self[1].data.kind = "Null"
    /\ out.args[1].data.kind = "Map"
    /\ out.ret[1] = out.args[1].data

\* the entry of mapping m whose key has the payload of key k, or 0
RECURSIVE EntryOf(_, _, _)
EntryOf(m, k, i) ==
    IF i > Len(m) THEN 0
    ELSE IF SamePayload(m[i].key, k) THEN i
    ELSE EntryOf(m, k, i + 1)

\* the panic message names idx
NamesKey(p, idx) == \E i \in 1..Len(p.args) : p.args[i] = idx
\* the panic message says that self is not a mapping
CitesNotAMapping(p) == p.msg = "Not a hash type"
\* the panic message says that the position is out of bounds
CitesOutOfBounds(p) ==
    p.msg \in {"{idx}: Index out of bounds",
               "index out of bounds: the len is {} but the index is {}"}
\* the panic message says that self cannot be indexed
CitesNotIndexable(p) ==
    p.msg = "Attempting to index but self is not a sequence nor a mapping"

\* C6: read indexing by a string key k.  On a Map holding a key equal to the
\* tag-less String k it gives the value stored under it (a tagged String k
\* is no match); on a Map without that key it panics with a message naming
\* k; on a node that is no Map it panics saying that self is not a mapping.
C6_IndexStr ==
    out.op = "index_str" =>
        LET d == out.self[1].data
            k == out.args[1]
            p == EntryOf(d.map, MarkedYaml(Span(0, 0), String(k, None)), 1)
        IN  /\ d.kind = "Map" /\ p # 0 =>
                ~Panicked(out) /\ out.ret = <<d.map[p].value>>
            /\ d.kind = "Map" /\ p = 0 => Panicked(out) /\ NamesKey(out.panic, k)
            /\ d.kind # "Map" => Panicked(out) /\ CitesNotAMapping(out.panic)

\* C7: read indexing by a position i.  On a Sequence it gives the i-th
\* element when i is below the length and else panics citing index out of
\* bounds; on a Map it gives the value under the tag-less Integer key i and
\* panics when there is none; on any other node it panics saying that self
\* cannot be indexed.
C7_IndexUsize ==
    out.op = "index_usize" =>
        LET d == out.self[1].data
            i == out.args[1]
            p == EntryOf(d.map, MarkedYaml(Span(0, 0), Integer(i, None)), 1)
        IN  /\ d.kind = "Sequence" /\ i < Len(d.seq) =>
                ~Panicked(out) /\ out.ret = <<d.seq[i + 1]>>
            /\ d.kind = "Sequence" /\ i >= Len(d.seq) =>
                Panicked(out) /\ CitesOutOfBounds(out.panic)
            /\ d.kind = "Map" /\ p # 0 => ~Panicked(out) /\ out.ret = <<d.map[p].value>>
            /\ d.kind = "Map" /\ p = 0 => Panicked(out)
            /\ d.kind \notin {"Sequence", "Map"} =>
                Panicked(out) /\ CitesNotIndexable(out.panic)

\* C8: mutable indexing by a position never inserts.  On a Map without the
\* tag-less Integer key i it panics and the entries of the map (keys, values,
\* order, count) stay as they are; on a Map with the key it gives the place
\* of the value stored under it and the keys stay as they are; on a Sequence
\* with i at or above the length it panics and the length stays as it is.
C8_IndexMutNeverInserts ==
    [][out'.op = "index_mut_usize" =>
          LET d == node.data
              i == out'.args[1]
              p == EntryOf(d.map, MarkedYaml(Span(0, 0), Integer(i, None)), 1)
          IN  /\ d.kind = "Map" /\ p = 0 =>
                  Panicked(out') /\ node'.data.map = d.map
              /\ d.kind = "Map" /\ p # 0 =>
                  /\ ~Panicked(out')
                  /\ out'.slot = <<p>> /\ out'.ret = <<d.map[p].value>>
                  /\ Len(node'.data.map) = Len(d.map)
                  /\ \A j \in 1..Len(d.map) : node'.data.map[j].key = d.map[j].key
              /\ d.kind = "Sequence" /\ i >= Len(d.seq) =>
                  Panicked(out') /\ Len(node'.data.seq) = Len(d.seq)
              /\ node'.data.kind = d.kind]_vars

\* index_mut with a position no key of a non-empty Map stands for has
\* panicked and left the Map as it was
C8_Witness ==
    /\ out.op = "index_mut_usize"
    /\ Panicked(out)
    /\ pc = "panicked"
    /\ out.self[1].data.kind = "Map"
    /\ Len(out.self[1].data.map) = MaxLen
    /\ out.args[1] <= I64_MAX
    /\ node = out.self[1]

\* no two keys of mapping m have the same payload
UniqueKeys(m) == \A i, j \in 1..Len(m) : i # j => ~SamePayload(m[i].key, m[j].key)

\* C9: in a Map of annotated nodes no two keys are structurally equal (value
\* and tag, recursively, spans aside) after any insertions, and the entry
\* inserted under a key K, scalar or composite, is found by every key
\* structurally equal to K, whatever its spans.
C9_UniqueKeysAndLookup ==
    /\ node.data.kind = "Map" => UniqueKeys(node.data.map)
    /\ out.op = "insert" =>
           \A k \in Keys :
               SamePayload(k, out.args[1]) =>
                   LinkedHashMap_get(node.data.map, k) = Some(out.args[2])
    /\ out.op = "get" =>
           LET m == out.self[1].data.map
               p == EntryOf(m, out.args[1], 1)
           IN  out.ret[1] = (IF p = 0 THEN None ELSE Some(m[p].value))

\* a Map of two entries, one under a composite key (a Map holding a Sequence),
\* has been asked for that key with other spans, and the value was found
C9_Witness ==
    /\ out.op = "get"
    /\ Len(out.self[1].data.map) = 2
    /\ out.args[1].data.kind = "Map"
    /\ out.args[1].data.map[1].value.data.kind = "Sequence"
    /\ \E i \in 1..2 :
           /\ SamePayload(out.self[1].data.map[i].key, out.args[1])
           /\ out.self[1].data.map[i].key # out.args[1]
           /\ out.ret[1] = Some(out.self[1].data.map[i].value)

\* C10: sequence_mut gives the list of children of a Sequence node, map_mut
\* and into_map the mapping of a Map node; sequence_mut on a node that is no
\* Sequence, and map_mut or into_map on a node that is no Map, panic: no
\* container is made up, and the payload of the node stays as it is.
C10_ContainerExtraction ==
    [][/\ out'.op = "sequence_mut" =>
             /\ node' = node
             /\ IF node.data.kind = "Sequence"
                THEN ~Panicked(out') /\ out'.ret = <<node.data.seq>>
                ELSE Panicked(out') /\ out'.ret = << >> /\ pc' = "panicked"
       /\ out'.op \in {"map_mut", "into_map"} =>
             /\ node' = node
             /\ IF node.data.kind = "Map"
                THEN ~Panicked(out') /\ out'.ret = <<node.data.map>>
                ELSE Panicked(out') /\ out'.ret = << >> /\ pc' = "panicked"
      ]_vars

\* sequence_mut on a Map with entries has panicked and left the Map as it was
C10_Witness ==
    /\ out.op = "sequence_mut"
    /\ Panicked(out)
    /\ out.self[1].data.kind = "Map"
    /\ Len(out.self[1].data.map) > 0
    /\ node = out.self[1]

\* C11: consuming iteration over a Sequence gives exactly its elements, in
\* their order and each once; over every other variant (Map, Null, BadValue
\* and the scalars among them) it gives nothing; it never panics.
C11_IntoIter ==
    out.op = "into_iter" =>
        LET d == out.self[1].data
            items == out.ret[1]
        IN  /\ ~Panicked(out)
            /\ d.kind = "Sequence" =>
                   /\ Len(items) = Len(d.seq)
                   /\ \A i \in 1..Len(d.seq) : items[i] = d.seq[i]
            /\ d.kind # "Sequence" => items = << >>

\* a Map that has entries has been iterated, and gave nothing
C11_NothingOfAMap ==
    /\ out.op = "into_iter"
    /\ out.self[1].data.kind = "Map"
    /\ Len(out.self[1].data.map) = MaxLen
    /\ out.ret = << << >> >>

\* a Sequence of two different elements has been iterated, and gave the two
\* in their order
C11_Witness ==
    /\ out.op = "into_iter"
    /\ out.self[1].data.kind = "Sequence"
    /\ Len(out.self[1].data.seq) = 2
    /\ out.self[1].data.seq[1] # out.self[1].data.seq[2]
    /\ out.ret[1] = <<out.self[1].data.seq[1], out.self[1].data.seq[2]>>

\* the node the two-phase construction recorded in h is to give at span s
Constructed(h, s) ==
    MarkedYaml(s, IF h.kind = "Sequence" THEN Sequence(h.added, h.tag)
                  ELSE Map(h.added, h.tag))

=============================================================================
